---- MODULE Spec2Model ----
(***************************************************************************)
(* rforemost: header/footer file carving.                                  *)
(*                                                                         *)
(* src/src/lib.rs  : trait Carver and its four implementations             *)
(*                   (JpegCarver, PngCarver, GifCarver, PdfCarver).        *)
(* src/src/main.rs : the scan engine, a rayon parallel loop over fixed     *)
(*                   size chunks of the memory mapped input.               *)
(*                                                                         *)
(* Bytes are the integers 0..255.  Buffers are TLA+ sequences; the code's  *)
(* 0-based index i is element i+1 of the sequence.  The result of an       *)
(* extract call is one of None, Some(n) or Panic: Rust's checked slice     *)
(* indexing turns every out-of-range index into a panic (an unwinding      *)
(* fault), which the model keeps apart from None.                          *)
(***************************************************************************)
EXTENDS Integers, Sequences, FiniteSets, TLC

VARIABLES
    data,       \* the input buffer (main.rs: mmap), never written
    nworkers,   \* size of the rayon pool (main.rs: args.threads)
    status,     \* per chunk task: "todo", "run", "done", "dead", "dropped"
    next,       \* per chunk task: the offset its loop examines next
    skipped,    \* offsets rejected by the first-byte table
    hdr,        \* matches_header calls made so far, with their results
    calls,      \* extract calls made so far, with their results
    emitted,    \* (offset, extension, length) handed to save_file
    failed,     \* the emitted triples whose save_file returned Err
    panicked,   \* a chunk task has panicked
    phase,      \* "scanning", "complete" (line 113 reached), "aborted"
    probe       \* recognizer harness: how the buffer under test was built

vars == <<data, nworkers, status, next, skipped, hdr, calls, emitted,
          failed, panicked, phase, probe>>

----------------------------------------------------------------------------
(* Bounds of the model.                                                    *)

\* main.rs:69 sets chunk_size = 1024 * 1024; the model scales it down.
ChunkSize == 8
\* lib.rs:165 sets limit = 10 * 1024 * 1024; the model scales it down.
PdfLimit == 16
\* largest rayon pool considered
MaxWorkers == 2
\* longest run of filler bytes in front of the fragments of a scanned buffer
MaxPad == 1
\* longest run of bytes in front of a constructed file (recognizer harness)
MaxPre == 1
\* largest declared length of a constructed JPEG segment
MaxSeg == 4
\* most bytes of a constructed JPEG bitstream
MaxBits == 2
\* most chunks in front of IEND in a constructed PNG
MaxChunks == 2
\* most tokens after the header of a constructed PDF
MaxTok == 4

----------------------------------------------------------------------------
(* Byte buffers.                                                           *)

Min(a, b) == IF a < b THEN a ELSE b

\* data[i]
At(d, i) == d[i + 1]

\* &data[a..b]; callers check a <= b <= len first, as Rust does
Slice(d, a, b) == SubSeq(d, a + 1, b)

\* BigEndian::read_u16(&data[p..p + 2])
BE16(d, p) == At(d, p) * 256 + At(d, p + 1)

\* BigEndian::read_u32(&data[p..p + 4])
BE32(d, p) ==
    At(d, p) * 16777216 + At(d, p + 1) * 65536 + At(d, p + 2) * 256 + At(d, p + 3)

\* Option<usize>, plus the panic outcome
None == [tag |-> "None", len |-> 0]
Some(n) == [tag |-> "Some", len |-> n]
Panic == [tag |-> "Panic", len |-> 0]

\* all sequences over S of length at most n
RECURSIVE SeqsUpTo(_, _)
SeqsUpTo(S, n) ==
    IF n = 0 THEN {<<>>}
    ELSE LET shorter == SeqsUpTo(S, n - 1)
         IN  shorter \cup {Append(s, x) : s \in shorter, x \in S}

\* concatenation of a sequence of sequences
RECURSIVE Flatten(_)
Flatten(ss) == IF ss = <<>> THEN <<>> ELSE Head(ss) \o Flatten(Tail(ss))

----------------------------------------------------------------------------
(* trait Carver and its implementations (lib.rs).                          *)

\* registration order of main.rs:47-52
Carvers == <<"jpg", "png", "gif", "pdf">>

FormatSet == {Carvers[i] : i \in 1..Len(Carvers)}

\* Carver::extension: the carvers are named by their extension
Extension(c) == c

PngSignature == <<137, 80, 78, 71, 13, 10, 26, 10>>

Gif87a == <<71, 73, 70, 56, 55, 97>>

Gif89a == <<71, 73, 70, 56, 57, 97>>

PdfTrailer == <<37, 37, 69, 79, 70>>

IEND == <<73, 69, 78, 68>>

HeaderMagicBroken(c) ==
    CASE c = "jpg" -> <<255, 216>>
      [] c = "png" -> PngSignature
      [] c = "gif" -> <<56, 73, 70, 56>>
      [] c = "pdf" -> <<37, 80, 68, 70>>

\* Carver::header_magic
HeaderMagic(c) ==
    CASE c = "jpg" -> <<255, 216>>
      [] c = "png" -> PngSignature
      [] c = "gif" -> <<71, 73, 70, 56>>
      [] c = "pdf" -> <<37, 80, 68, 70>>

DefaultMatchesHeaderBroken(magic, d, offset) ==
    /\ offset + Len(magic) <= Len(d) + 1
    /\ \A i \in 0..(Len(magic) - 1) :
          offset + i < Len(d) => At(d, offset + i) = magic[i + 1]

\* Carver::matches_header, the trait's default body
DefaultMatchesHeader(magic, d, offset) ==
    /\ offset + Len(magic) <= Len(d)
    /\ Slice(d, offset, offset + Len(magic)) = magic

\* GifCarver::matches_header
GifMatchesHeader(d, offset) ==
    /\ offset + 6 <= Len(d)
    /\ \/ Slice(d, offset, offset + 6) = Gif87a
       \/ Slice(d, offset, offset + 6) = Gif89a

\* matches_header as dispatched on the carver
MatchesHeader(c, d, offset) ==
    IF c = "gif" THEN GifMatchesHeader(d, offset)
    ELSE DefaultMatchesHeader(HeaderMagic(c), d, offset)

\* .windows(2).position(|w| w == [0xFF, 0xD9]) on &data[from..]
EoiPositions(d, from) ==
    {i \in from..(Len(d) - 2) : At(d, i) = 255 /\ At(d, i + 1) = 217}

FirstOf(S) == CHOOSE x \in S : \A y \in S : x <= y

LastOf(S) == CHOOSE x \in S : \A y \in S : x >= y

JpegBitstreamStartBroken(pos, segment_len) == pos + 2

\* lib.rs:59
JpegBitstreamStart(pos, segment_len) == pos + 2 + segment_len

\* JpegCarver::extract, the 0xDA arm
JpegStartOfScan(d, start_offset, pos) ==
    IF pos + 4 > Len(d) THEN Panic          \* &data[pos + 2..pos + 4]
    ELSE LET segment_len == BE16(d, pos + 2)
             bitstream_start == JpegBitstreamStart(pos, segment_len)
         IN  IF bitstream_start > Len(d) THEN Panic   \* data[bitstream_start..]
             ELSE LET found == EoiPositions(d, bitstream_start)
                  IN  IF found = {} THEN None
                      ELSE Some(FirstOf(found) + 2 - start_offset)

\* JpegCarver::extract, the while loop
RECURSIVE JpegWalk(_, _, _)
JpegWalk(d, start_offset, pos) ==
    IF ~(pos + 1 < Len(d)) THEN None
    ELSE IF At(d, pos) # 255 THEN None
    ELSE LET marker == At(d, pos + 1)
         IN  CASE marker = 217 -> Some(pos + 2 - start_offset)
               [] marker = 218 -> JpegStartOfScan(d, start_offset, pos)
               [] marker = 1 \/ marker \in 208..215 ->
                      JpegWalk(d, start_offset, pos + 2)
               [] OTHER ->
                      IF pos + 4 > Len(d) THEN None
                      ELSE JpegWalk(d, start_offset, pos + 2 + BE16(d, pos + 2))

\* JpegCarver::extract
JpegExtract(d, start_offset) ==
    IF ~MatchesHeader("jpg", d, start_offset) THEN None
    ELSE JpegWalk(d, start_offset, start_offset + 2)

ChunkTotalBroken(length) == 8 + length

\* lib.rs:100
ChunkTotal(length) == 12 + length

\* PngCarver::extract, the while loop
RECURSIVE PngWalk(_, _, _)
PngWalk(d, start_offset, pos) ==
    IF ~(pos + 8 <= Len(d)) THEN None
    ELSE LET length == BE32(d, pos)
             chunk_type == Slice(d, pos + 4, pos + 8)
             after == pos + ChunkTotal(length)
         IN  IF chunk_type = IEND THEN Some(after - start_offset)
             ELSE IF after > Len(d) THEN None
             ELSE PngWalk(d, start_offset, after)

\* PngCarver::extract
PngExtract(d, start_offset) ==
    IF ~MatchesHeader("png", d, start_offset) THEN None
    ELSE PngWalk(d, start_offset, start_offset + 8)

\* GifCarver::extract
GifExtract(d, start_offset) ==
    IF ~MatchesHeader("gif", d, start_offset) THEN None
    ELSE LET found == {p \in 0..(Len(d) - start_offset - 1) :
                          At(d, start_offset + p) = 59}
         IN  IF found = {} THEN None ELSE Some(FirstOf(found) + 1)

PdfWindowEndBroken(d, start_offset) == Len(d)

\* lib.rs:166
PdfWindowEnd(d, start_offset) == Min(Len(d), start_offset + PdfLimit)

\* PdfCarver::extract
PdfExtract(d, start_offset) ==
    IF ~MatchesHeader("pdf", d, start_offset) THEN None
    ELSE LET search_range == Slice(d, start_offset, PdfWindowEnd(d, start_offset))
             found == {o \in 0..(Len(search_range) - Len(PdfTrailer)) :
                          Slice(search_range, o, o + Len(PdfTrailer)) = PdfTrailer}
         IN  IF found = {} THEN None
             ELSE Some(LastOf(found) + Len(PdfTrailer))

\* extract as dispatched on the carver
Extract(c, d, start_offset) ==
    CASE c = "jpg" -> JpegExtract(d, start_offset)
      [] c = "png" -> PngExtract(d, start_offset)
      [] c = "gif" -> GifExtract(d, start_offset)
      [] c = "pdf" -> PdfExtract(d, start_offset)

----------------------------------------------------------------------------
(* The scan engine (main.rs).                                              *)

\* main.rs:62-66, the table as the set of bytes whose entry is true
FirstBytes == {HeaderMagic(Carvers[i])[1] : i \in 1..Len(Carvers)}

FilterPassesBroken(b) == TRUE

\* main.rs:80, first_bytes[data[offset] as usize]
FilterPasses(b) == b \in FirstBytes

\* main.rs:72-74, (0..total_len).step_by(chunk_size): the chunk tasks
NumChunks(len) == (len + ChunkSize - 1) \div ChunkSize

ChunkIds(d) == 0..(NumChunks(Len(d)) - 1)

ChunkStart(c) == c * ChunkSize

\* main.rs:78
ChunkEnd(d, c) == Min(ChunkStart(c) + ChunkSize, Len(d))

\* main.rs:86-104 for one carver at one offset:
\*   "skip"  the if-let chain fails,
\*   "panic" extract faults, or &data[offset..offset + size] does,
\*   "emit"  save_file is called
CarverOutcome(c, d, offset) ==
    IF ~MatchesHeader(c, d, offset) THEN "skip"
    ELSE LET r == Extract(c, d, offset)
         IN  CASE r.tag = "Panic" -> "panic"
               [] r.tag = "None" -> "skip"
               [] OTHER -> IF offset + r.len > Len(d) THEN "panic" ELSE "emit"

\* main.rs:84, the carvers the inner loop gets to before a panic unwinds it
Reached(d, offset) ==
    {i \in 1..Len(Carvers) :
        \A j \in 1..(i - 1) : CarverOutcome(Carvers[j], d, offset) # "panic"}

PanicsAt(d, offset) ==
    \E i \in Reached(d, offset) : CarverOutcome(Carvers[i], d, offset) = "panic"

\* the matches_header calls of one pass of the inner loop
HeaderCallsAt(d, offset) ==
    {[fmt |-> Carvers[i], off |-> offset,
      res |-> MatchesHeader(Carvers[i], d, offset)] : i \in Reached(d, offset)}

\* the extract calls of one pass of the inner loop
ExtractCallsAt(d, offset) ==
    {[fmt |-> Carvers[i], off |-> offset,
      res |-> Extract(Carvers[i], d, offset)] :
        i \in {j \in Reached(d, offset) : MatchesHeader(Carvers[j], d, offset)}}

\* the files one pass of the inner loop hands to save_file
EmittedAt(d, offset) ==
    {<<offset, Extension(Carvers[i]), Extract(Carvers[i], d, offset).len>> :
        i \in {j \in Reached(d, offset) :
                  CarverOutcome(Carvers[j], d, offset) = "emit"}}

Running == {c \in DOMAIN status : status[c] = "run"}

\* where the loop of chunk c stands after examining next[c]
Advance(c) ==
    /\ next' = [next EXCEPT ![c] = next[c] + 1]
    /\ status' = [status EXCEPT
                     ![c] = IF next[c] + 1 >= ChunkEnd(data, c) THEN "done" ELSE "run"]

\* rayon hands a chunk task to a free worker of the pool
StartChunk(c) ==
    /\ phase = "scanning"
    /\ status[c] = "todo"
    /\ Cardinality(Running) < nworkers
    /\ status' = [status EXCEPT ![c] = "run"]
    /\ UNCHANGED <<data, nworkers, next, skipped, hdr, calls, emitted, failed,
                   panicked, phase, probe>>

\* main.rs:80-82, the byte at the offset is no header start: continue
SkipOffset(c) ==
    /\ phase = "scanning"
    /\ status[c] = "run"
    /\ ~FilterPasses(At(data, next[c]))
    /\ skipped' = skipped \cup {next[c]}
    /\ Advance(c)
    /\ UNCHANGED <<data, nworkers, hdr, calls, emitted, failed, panicked,
                   phase, probe>>

\* main.rs:84-108, every carver is tried at the offset; each save_file
\* either succeeds or returns Err, which is printed and otherwise ignored
CarveOffset(c) ==
    /\ phase = "scanning"
    /\ status[c] = "run"
    /\ FilterPasses(At(data, next[c]))
    /\ ~PanicsAt(data, next[c])
    /\ hdr' = hdr \cup HeaderCallsAt(data, next[c])
    /\ calls' = calls \cup ExtractCallsAt(data, next[c])
    /\ emitted' = emitted \cup EmittedAt(data, next[c])
    /\ \E errs \in SUBSET EmittedAt(data, next[c]) : failed' = failed \cup errs
    /\ Advance(c)
    /\ UNCHANGED <<data, nworkers, skipped, panicked, phase, probe>>

\* main.rs:88 and 92, a carver or the slicing of its result panics.  The
\* panic unwinds the rayon task: the rest of the chunk is not examined, and
\* neither are the chunks that follow it in the same sequential leaf of the
\* parallel iterator, whose extent depends on the pool and on work stealing.
PanicOffset(c) ==
    /\ phase = "scanning"
    /\ status[c] = "run"
    /\ FilterPasses(At(data, next[c]))
    /\ PanicsAt(data, next[c])
    /\ hdr' = hdr \cup HeaderCallsAt(data, next[c])
    /\ calls' = calls \cup ExtractCallsAt(data, next[c])
    /\ emitted' = emitted \cup EmittedAt(data, next[c])
    /\ \E errs \in SUBSET EmittedAt(data, next[c]) : failed' = failed \cup errs
    /\ \E last \in c..(NumChunks(Len(data)) - 1) :
          /\ \A k \in (c + 1)..last : status[k] = "todo"
          /\ status' = [k \in DOMAIN status |->
                           IF k = c THEN "dead"
                           ELSE IF k \in (c + 1)..last THEN "dropped"
                           ELSE status[k]]
    /\ panicked' = TRUE
    /\ UNCHANGED <<data, nworkers, next, skipped, phase, probe>>

Settled == \A c \in DOMAIN status : status[c] \in {"done", "dead", "dropped"}

\* main.rs:113-114, for_each returned: "Scan complete" is printed
Complete ==
    /\ phase = "scanning"
    /\ Settled
    /\ ~panicked
    /\ phase' = "complete"
    /\ UNCHANGED <<data, nworkers, status, next, skipped, hdr, calls, emitted,
                   failed, panicked, probe>>

\* main.rs:72-112, for_each resumes the panic of a task in main
Abort ==
    /\ phase = "scanning"
    /\ Settled
    /\ panicked
    /\ phase' = "aborted"
    /\ UNCHANGED <<data, nworkers, status, next, skipped, hdr, calls, emitted,
                   failed, panicked, probe>>

----------------------------------------------------------------------------
(* The inputs of the scan: zero filler bytes, a fragment and a tail.       *)

ScanFragments ==
    { <<>>,
      <<0, 59>>,                                          \* filler, lone trailer
      <<255, 216, 255, 217>>,                               \* SOI EOI
      <<255, 216, 255, 224, 0, 2, 255, 218, 0, 2, 7, 255, 217>>, \* APP0, SOS
      <<255, 216, 255, 208, 0>>,                            \* RST0 then garbage
      <<255, 216, 255, 218>>,                               \* SOS, no length
      <<255, 216, 255, 218, 0, 9>>,                         \* SOS, long header
      <<255, 216, 255, 218, 255, 255, 0, 0, 0, 0>>,         \* the same, filler
      Gif89a \o <<1, 59>>,
      Gif87a,
      <<37, 80, 68, 70, 45>> \o PdfTrailer,
      <<37, 80, 68, 70>>,
      PngSignature \o <<0, 0, 0, 0>> \o IEND \o <<0, 0, 0, 0>>,
      PngSignature \o <<0, 0, 0, 0>> \o IEND,             \* IEND without CRC
      PngSignature \o <<0, 0, 0, 1>> \o <<73, 68, 65, 84>> }   \* cut in IDAT

\* what follows the first fragment
ScanTails ==
    { <<>>,
      <<0, 59>>,
      <<255, 216, 255, 217>>,
      <<255, 216, 255, 218>>,
      Gif89a \o <<1, 59>>,
      <<37, 80, 68, 70, 45>> \o PdfTrailer }

ScanBuffers ==
    {pad \o f \o g : pad \in SeqsUpTo({0}, MaxPad),
                     f \in ScanFragments, g \in ScanTails}

NoProbe ==
    [kind |-> "none", fmt |-> "none", start |-> 0, base |-> 0, expect |-> 0,
     altered |-> "no"]

Init ==
    /\ data \in ScanBuffers
    /\ nworkers \in 1..MaxWorkers
    /\ status = [c \in ChunkIds(data) |-> "todo"]
    /\ next = [c \in ChunkIds(data) |-> ChunkStart(c)]
    /\ skipped = {}
    /\ hdr = {}
    /\ calls = {}
    /\ emitted = {}
    /\ failed = {}
    /\ panicked = FALSE
    /\ phase = "scanning"
    /\ probe = NoProbe

Next ==
    \/ \E c \in DOMAIN status : StartChunk(c)
    \/ \E c \in DOMAIN status : SkipOffset(c)
    \/ \E c \in DOMAIN status : CarveOffset(c)
    \/ \E c \in DOMAIN status : PanicOffset(c)
    \/ Complete
    \/ Abort

Spec == Init /\ [][Next]_vars

----------------------------------------------------------------------------
(* The recognizers on constructed inputs.  A test is a buffer and a probe: *)
(* the carver under test, the offset it is called at (start), the offset   *)
(* the construction was placed at (base) and, for a constructed file, the  *)
(* length the construction has (expect).                                   *)

Enc16(n) == <<(n \div 256) % 256, n % 256>>

Enc32(n) ==
    <<(n \div 16777216) % 256, (n \div 65536) % 256, (n \div 256) % 256, n % 256>>

SeqsOfLen(S, n) == {s \in SeqsUpTo(S, n) : Len(s) = n}

HasEoiPair(s) == \E i \in 1..(Len(s) - 1) : s[i] = 255 /\ s[i + 1] = 217

JpegAlphabet == {0, 217, 255}

\* bytes of the segment payloads: they can spell FF D9
JpegPayloadBytes == {217, 255}

\* FF D8, a marker segment of declared length L, FF DA, a scan header of
\* declared length S, a bitstream free of FF D9, FF D9
JpegTests ==
    {[data |-> pre \o <<255, 216>> \o <<255, m>> \o Enc16(Len(payload) + 2)
                   \o payload \o <<255, 218>> \o Enc16(Len(shdr) + 2) \o shdr
                   \o bits \o <<255, 217>> \o suf,
      probe |-> [kind |-> "jpeg", fmt |-> "jpg", start |-> Len(pre),
                 base |-> Len(pre),
                 expect |-> 2 + (2 + Len(payload) + 2) + (2 + Len(shdr) + 2)
                              + Len(bits) + 2,
                 altered |-> "no"]] :
        pre \in SeqsUpTo({0}, MaxPre),
        m \in {219, 224},
        payload \in SeqsUpTo(JpegPayloadBytes, MaxSeg - 2),
        shdr \in SeqsUpTo(JpegPayloadBytes, MaxSeg - 2),
        bits \in {b \in SeqsUpTo(JpegAlphabet, MaxBits) : ~HasEoiPair(b)},
        suf \in {<<>>, <<0>>, <<255, 217>>}}

PngChunkSpecs ==
    [type : {<<73, 68, 65, 84>>},
     payload : {<<>>, <<0>>, IEND, <<0, 0, 0, 0>> \o IEND},
     crc : {<<0, 0, 0, 0>>, IEND}]

PngChunk(k) == Enc32(Len(k.payload)) \o k.type \o k.payload \o k.crc

IendChunk == Enc32(0) \o IEND \o <<174, 66, 96, 130>>

RECURSIVE PngChunks(_)
PngChunks(ks) == IF ks = <<>> THEN <<>> ELSE PngChunk(Head(ks)) \o PngChunks(Tail(ks))

RECURSIVE FramedLength(_)
FramedLength(ks) ==
    IF ks = <<>> THEN 0 ELSE 12 + Len(Head(ks).payload) + FramedLength(Tail(ks))

\* the signature, correctly framed chunks, a zero length IEND chunk
PngTests ==
    {[data |-> pre \o PngSignature \o PngChunks(ks) \o IendChunk \o suf,
      probe |-> [kind |-> "png", fmt |-> "png", start |-> Len(pre),
                 base |-> Len(pre),
                 expect |-> 8 + FramedLength(ks) + 12,
                 altered |-> "no"]] :
        pre \in SeqsUpTo({0}, MaxPre),
        ks \in SeqsUpTo(PngChunkSpecs, MaxChunks),
        suf \in {<<>>, <<0>>, IendChunk}}

PdfTokens == {<<37>>, <<120, 120, 120, 120, 120, 120>>, PdfTrailer}

\* %PDF and a body of percent signs, filler and %%EOF markers
PdfTests ==
    {[data |-> pre \o <<37, 80, 68, 70>> \o Flatten(toks),
      probe |-> [kind |-> "pdf", fmt |-> "pdf", start |-> Len(pre),
                 base |-> Len(pre), expect |-> 0, altered |-> "no"]] :
        pre \in SeqsUpTo({0, 37}, MaxPre),
        toks \in SeqsUpTo(PdfTokens, MaxTok)}

\* the signatures a format accepts
AcceptedSignatures(c) ==
    CASE c = "jpg" -> {<<255, 216>>}
      [] c = "png" -> {<<137, 80, 78, 71, 13, 10, 26, 10>>}
      [] c = "gif" -> {<<71, 73, 70, 56, 55, 97>>, <<71, 73, 70, 56, 57, 97>>}
      [] c = "pdf" -> {<<37, 80, 68, 70>>}

SignatureLength(c) ==
    CASE c = "jpg" -> 2 [] c = "png" -> 8 [] c = "gif" -> 6 [] c = "pdf" -> 4

\* an accepted signature placed at base, probed at any offset of the buffer
HeaderTests ==
    UNION {{[data |-> t.d,
             probe |-> [kind |-> "header", fmt |-> t.c, start |-> o,
                        base |-> t.b, expect |-> 0, altered |-> "no"]] :
               o \in 0..Len(t.d)} :
           t \in {[d |-> pre \o sig \o suf, c |-> c, b |-> Len(pre)] :
                     c \in FormatSet,
                     pre \in SeqsUpTo({0, 71}, MaxPre),
                     sig \in UNION {AcceptedSignatures(f) : f \in FormatSet},
                     suf \in {<<>>, <<0>>}}}

MutationBytes == {0, 55, 57, 71, 216, 255}

InitFn ==
    /\ \E t \in JpegTests \cup PngTests \cup PdfTests \cup HeaderTests :
          /\ data = t.data
          /\ probe = t.probe
    /\ nworkers = 1
    /\ status = [c \in {} |-> "todo"]
    /\ next = [c \in {} |-> 0]
    /\ skipped = {}
    /\ hdr = {}
    /\ calls = {}
    /\ emitted = {}
    /\ failed = {}
    /\ panicked = FALSE
    /\ phase = "harness"

\* extract is called on the constructed file
RunExtract ==
    /\ probe.kind \in {"jpeg", "png", "pdf"}
    /\ calls = {}
    /\ calls' = {[fmt |-> probe.fmt, off |-> probe.start,
                  res |-> Extract(probe.fmt, data, probe.start)]}
    /\ UNCHANGED <<data, nworkers, status, next, skipped, hdr, emitted, failed,
                   panicked, phase, probe>>

\* matches_header is called on the buffer
CheckHeader ==
    /\ probe.kind = "header"
    /\ hdr = {}
    /\ hdr' = {[fmt |-> probe.fmt, off |-> probe.start,
                res |-> MatchesHeader(probe.fmt, data, probe.start)]}
    /\ UNCHANGED <<data, nworkers, status, next, skipped, calls, emitted,
                   failed, panicked, phase, probe>>

SliceAtBase(c) ==
    IF probe.base + SignatureLength(c) <= Len(data)
    THEN Slice(data, probe.base, probe.base + SignatureLength(c))
    ELSE <<>>

\* one byte of a matching slice is replaced by a different byte
MutateByte(i, v) ==
    /\ probe.kind = "header"
    /\ probe.altered = "no"
    /\ probe.start = probe.base
    /\ hdr = {}
    /\ SliceAtBase(probe.fmt) \in AcceptedSignatures(probe.fmt)
    /\ i < SignatureLength(probe.fmt)
    /\ At(data, probe.base + i) # v
    /\ data' = [data EXCEPT ![probe.base + i + 1] = v]
    /\ probe' = [probe EXCEPT !.altered = "mutated"]
    /\ UNCHANGED <<nworkers, status, next, skipped, hdr, calls, emitted,
                   failed, panicked, phase>>

\* the buffer is cut so that only k bytes of the signature remain
TruncateBuffer(k) ==
    /\ probe.kind = "header"
    /\ probe.altered = "no"
    /\ probe.start = probe.base
    /\ hdr = {}
    /\ SliceAtBase(probe.fmt) \in AcceptedSignatures(probe.fmt)
    /\ k < SignatureLength(probe.fmt)
    /\ data' = SubSeq(data, 1, probe.base + k)
    /\ probe' = [probe EXCEPT !.altered = "truncated"]
    /\ UNCHANGED <<nworkers, status, next, skipped, hdr, calls, emitted,
                   failed, panicked, phase>>

NextFn ==
    \/ RunExtract
    \/ CheckHeader
    \/ \E i \in 0..7, v \in MutationBytes : MutateByte(i, v)
    \/ \E k \in 0..7 : TruncateBuffer(k)

SpecFn == InitFn /\ [][NextFn]_vars

----------------------------------------------------------------------------
(* Properties.                                                             *)

\* C1: whenever extract returns a length, start_offset + length does not
\* exceed the buffer length.
C1_ExtractWithinBuffer ==
    \A r \in calls : r.res.tag = "Some" => r.off + r.res.len <= Len(data)

\* C2: extract never indexes outside the buffer; a truncated or malformed
\* structure yields None, never a fault.
C2_ExtractNeverFaults ==
    \A r \in calls : r.res.tag # "Panic"

\* the files of a sequential pass of main.rs:78-111 over the offsets from o
RECURSIVE SequentialPassFrom(_, _)
SequentialPassFrom(d, o) ==
    IF o >= Len(d) THEN {}
    ELSE IF ~FilterPasses(At(d, o)) THEN SequentialPassFrom(d, o + 1)
    ELSE EmittedAt(d, o)
            \cup (IF PanicsAt(d, o) THEN {} ELSE SequentialPassFrom(d, o + 1))

\* C3: whatever the pool size and the interleaving of the chunk tasks, the
\* scan ends with the set of (offset, extension, length) triples that a
\* sequential pass over the offsets 0..len-1 emits.
C3_EmittedSetDeterministic ==
    phase \in {"complete", "aborted"} => emitted = SequentialPassFrom(data, 0)

Examined(o) ==
    \E c \in DOMAIN status :
        /\ ChunkStart(c) <= o
        /\ o < ChunkEnd(data, c)
        /\ o < next[c]

\* C4: the scan is never aborted, and once every chunk task has ended every
\* offset of the buffer has been examined and the scan completes.
C4_ScanRunsToCompletion ==
    /\ phase # "aborted"
    /\ Settled /\ phase # "harness" =>
          /\ ~panicked
          /\ \A o \in 0..(Len(data) - 1) : Examined(o)

\* C5: at an offset whose byte is not the first byte of any recognizer's
\* signature, no recognizer operation is invoked and nothing is emitted.
C5_FastReject ==
    \A o \in 0..(Len(data) - 1) :
        At(data, o) \notin {255, 137, 71, 37} =>
            /\ \A h \in hdr : h.off # o
            /\ \A r \in calls : r.off # o
            /\ \A e \in emitted : e[1] # o

\* a completed scan that both rejected offsets and invoked recognizers
C5_Witness ==
    /\ phase = "complete"
    /\ \E o \in skipped : At(data, o) \notin {255, 137, 71, 37}
    /\ hdr # {}
    /\ emitted # {}

\* C6: on FF D8, one marker segment, FF DA with its scan header, a
\* bitstream without FF D9, and FF D9, extract at the start of the
\* construction returns exactly the constructed length.
C6_JpegRoundTrip ==
    \A r \in calls : probe.kind = "jpeg" => r.res = Some(probe.expect)

\* extract has run on a construction placed after other bytes, whose marker
\* segment and scan header both hold FF D9, and which a second FF D9 follows
C6_Witness ==
    /\ probe.kind = "jpeg"
    /\ probe.start > 0
    /\ \E r \in calls :
          /\ r.res.tag = "Some"
          /\ r.off + r.res.len + 2 = Len(data)
          /\ Slice(data, r.off + r.res.len, Len(data)) = <<255, 217>>
          /\ Slice(data, r.off + 6, r.off + 10) = <<255, 217, 255, 218>>
          /\ Slice(data, r.off + 10, r.off + 14) = <<0, 4, 255, 217>>

\* C7: on the signature, correctly framed chunks and a final zero length
\* IEND chunk, extract returns 8 + sum(12 + length_i).
C7_PngRoundTrip ==
    \A r \in calls : probe.kind = "png" => r.res = Some(probe.expect)

\* extract has run on a PNG with two chunks in front of IEND, followed by
\* more bytes
C7_Witness ==
    /\ probe.kind = "png"
    /\ \E r \in calls :
          /\ r.res.tag = "Some"
          /\ r.res.len > 8 + 12 + 12 + 12
          /\ r.off + r.res.len < Len(data)

PdfOccurrences(d, from, to) ==
    {p \in from..(to - 5) : Slice(d, p, p + 5) = <<37, 37, 69, 79, 70>>}

\* C8: extract looks at [start, min(len, start + limit)) only; its result is
\* the end of the last %%EOF lying entirely inside that window, relative to
\* start, and None when there is no such %%EOF.
C8_PdfWindow ==
    \A r \in calls :
        probe.kind = "pdf" =>
            LET inside == PdfOccurrences(data, r.off,
                              IF Len(data) < r.off + PdfLimit
                              THEN Len(data) ELSE r.off + PdfLimit)
            IN  r.res = IF inside = {} THEN None
                        ELSE Some(LastOf(inside) + 5 - r.off)

\* extract has run on a PDF with two %%EOF inside the window and a third
\* one that is not
C8_Witness ==
    /\ probe.kind = "pdf"
    /\ \E r \in calls :
          /\ r.res.tag = "Some"
          /\ Len(data) > r.off + PdfLimit
          /\ Cardinality(PdfOccurrences(data, r.off, r.off + PdfLimit)) >= 2
          /\ PdfOccurrences(data, r.off, Len(data))
                # PdfOccurrences(data, r.off, r.off + PdfLimit)

MatchesAccepted(c, d, o) ==
    \E s \in AcceptedSignatures(c) :
        /\ o + Len(s) <= Len(d)
        /\ Slice(d, o, o + Len(s)) = s

\* C9 as stated: matches_header is true iff the slice at the offset is an
\* accepted signature, false after any single byte mutation of a matching
\* slice, and false on a truncated buffer.
C9_HeaderMatchingAsStated ==
    \A h \in hdr :
        probe.kind = "header" =>
            /\ h.res <=> MatchesAccepted(h.fmt, data, h.off)
            /\ probe.altered = "mutated" => ~h.res
            /\ probe.altered = "truncated" => ~h.res

\* C9: matches_header is true iff the slice at the offset is an accepted
\* signature; after a single byte mutation of a matching slice it is false
\* unless the mutation turned GIF87a into GIF89a or GIF89a into GIF87a, and
\* then it is true; it is false on a truncated buffer.
C9_HeaderMatching ==
    \A h \in hdr :
        probe.kind = "header" =>
            /\ h.res <=> MatchesAccepted(h.fmt, data, h.off)
            /\ probe.altered = "mutated" =>
                  (h.res <=> /\ h.fmt = "gif"
                             /\ SliceAtBase("gif") \in {Gif87a, Gif89a})
            /\ probe.altered = "truncated" => ~h.res

\* matches_header has run on a GIF signature whose version digit was mutated
\* into the other version
C9_Witness ==
    /\ probe.kind = "header"
    /\ probe.altered = "mutated"
    /\ probe.fmt = "gif"
    /\ \E h \in hdr : h.res

\* every file a pass without the first-byte table would find
UnfilteredPass(d) ==
    UNION {LET r == Extract(c, d, o)
           IN  IF MatchesAccepted(c, d, o) /\ r.tag = "Some"
               THEN {<<o, Extension(c), r.len>>} ELSE {} :
              o \in 0..(Len(d) - 1), c \in FormatSet}

\* C10: no offset rejected by the first-byte table holds the header of any
\* recognizer, so a completed scan has emitted what a pass that tries every
\* recognizer at every offset emits.
C10_FilterHidesNoMatch ==
    /\ \A o \in skipped : \A c \in FormatSet : ~MatchesAccepted(c, data, o)
    /\ phase = "complete" => emitted = UnfilteredPass(data)

\* a completed scan that rejected offsets and carved a GIF
C10_Witness ==
    /\ phase = "complete"
    /\ skipped # {}
    /\ \E e \in emitted : e[2] = "gif"

====
